---- MODULE Spec2Model ----
(***************************************************************************)
(* Model of the Minesweeper class of Tomava/Minesweeper (the timed variant *)
(* with the scoreboard, src/unnamed/part_000).  A square (a tkinter Label) *)
(* is modelled by its identity <<game, index>>: game is the number of the  *)
(* start_game call that created it, index its position in __squares.      *)
(* Lists that the code only tests with "in" and len() are sets.            *)
(*                                                                         *)
(* activate_square, activate_adjacent_squares, end_game and check_win call *)
(* each other recursively, to a depth of up to Size*Size.  The model runs  *)
(* them with an explicit call stack: a call that contains a loop pushes a  *)
(* frame that holds the loop position, Step runs the frame on top up to    *)
(* its next call or to its return, and a handler is Run to the empty       *)
(* stack inside one action.                                                *)
(***************************************************************************)
EXTENDS Integers, FiniteSets, Sequences, TLC

\* ---- bounds of the model ------------------------------------------------
Size == 3            \* side of the grid (self.__size, 10 in the program)
MaxMines == 1        \* largest value read from the mines spinbox
MaxGames == 2        \* start_game calls in one run (the first is __init__'s)
MaxGenerations == 2  \* generate_mines calls allowed in one game
LogSteps == 7        \* a handler runs at most 2^LogSteps steps of the call stack
RestartGenerations == 1  \* generate_mines calls allowed in one game of SpecRestart
GameTime == 1        \* what Timer.get_time returns at a win in the games' specifications
MaxTime == 3         \* largest time a record of SpecScores holds

\* ---- image indexes (IMAGE_FILES) ------------------------------------------
IMG_BOMB == 9
IMG_EMPTY == 10
IMG_FLAGGED == 11
IMG_EXPLODED == 12

\* save_highscores keeps scores[:10]
ScoreCap == 10

NumSquares == Size * Size
Indexes == 0 .. (NumSquares - 1)
Coords == 0 .. (Size - 1)
MineCounts == 0 .. MaxMines
Times == 1 .. MaxTime

\* get_square returns None for coordinates outside the grid
None == <<0, 0>>

VARIABLES
  game,                  \* number of start_game calls so far: identity of the current Labels
  has_won,               \* self.__has_won
  marked_squares,        \* self.__marked_squares (never cleared by start_game)
  activated_squares,     \* self.__activated_squares
  mine_squares,          \* self.__mine_squares
  undiscovered_mines,    \* self.__undiscovered_mines: the configured mine count
  mines_label,           \* text of self.__mines_label
  undiscovered_squares,  \* text of self.__undiscovered_squares
  ending_text,           \* text of self.__ending_text
  images,                \* image shown by each current square, by index
  bound,                 \* the squares still have their click bindings
  timer_started,         \* Timer.__started
  generations,           \* history: generate_mines calls since the last start_game
  end_games,             \* history: the messages of the end_game calls since the last start_game
  records,               \* history: the keys of self.__highscores that got a record since the last start_game
  activations,           \* history: the appends to self.__activated_squares since the last start_game
  highscores,            \* self.__highscores: for each mine count the times of its records, in order
  stack,                 \* the call stack when the last handler stopped running
  chorded                \* history: a click on an activated square has activated squares

gameVars == <<game, has_won, marked_squares, activated_squares, mine_squares,
          undiscovered_mines, mines_label, undiscovered_squares, ending_text,
          images, bound, timer_started, generations, end_games, records,
          activations, stack, chorded>>

vars == <<gameVars, highscores>>

\* ---- the object's fields as one record, for the handlers -------------------
\* sample is the value random.sample returns if generate_mines runs in this command;
\* raised tells that the handler has ended by an exception, depth is the
\* largest number of activate_square calls that were running at one time
Self(smp) ==
  [game |-> game, has_won |-> has_won, marked_squares |-> marked_squares,
   activated_squares |-> activated_squares, mine_squares |-> mine_squares,
   undiscovered_mines |-> undiscovered_mines, mines_label |-> mines_label,
   undiscovered_squares |-> undiscovered_squares, ending_text |-> ending_text,
   images |-> images, bound |-> bound, timer_started |-> timer_started,
   generations |-> generations, end_games |-> end_games, records |-> records,
   activations |-> activations, highscores |-> highscores, sample |-> smp,
   stack |-> <<>>,
   raised |-> FALSE, depth |-> 0]

\* the object's fields in a handler's result, without what the handler reports
Fields(s) == [s EXCEPT !.sample = {}, !.raised = FALSE, !.depth = 0]

Commit(s) ==
  /\ game' = s.game
  /\ has_won' = s.has_won
  /\ marked_squares' = s.marked_squares
  /\ activated_squares' = s.activated_squares
  /\ mine_squares' = s.mine_squares
  /\ undiscovered_mines' = s.undiscovered_mines
  /\ mines_label' = s.mines_label
  /\ undiscovered_squares' = s.undiscovered_squares
  /\ ending_text' = s.ending_text
  /\ images' = s.images
  /\ bound' = s.bound
  /\ timer_started' = s.timer_started
  /\ generations' = s.generations
  /\ end_games' = s.end_games
  /\ records' = s.records
  /\ activations' = s.activations
  /\ highscores' = s.highscores
  /\ stack' = s.stack

\* ---- squares ----------------------------------------------------------------
\* self.__squares[index] of the current grid
Square(s, index) == <<s.game, index>>

\* self.__square_coordinates: [x, y] of a square
CoordX(square) == square[2] % Size
CoordY(square) == square[2] \div Size

\* the index get_square computes for (x, y), -1 where it returns None
GridIndex(x, y) ==
  IF y >= Size \/ x >= Size \/ y < 0 \/ x < 0
    THEN -1
    ELSE y * Size + x

get_square(s, x, y) ==
  IF GridIndex(x, y) < 0 THEN None ELSE Square(s, GridIndex(x, y))

\* the 3x3 block around a square, in the order the loops visit it
\* (y outer, x inner); k = 0..8
BlockX(square, k) == CoordX(square) - 1 + (k % 3)
BlockY(square, k) == CoordY(square) - 1 + (k \div 3)

\* GridIndex at every position of the block around every square
Block ==
  [i \in Indexes |-> [k \in 0..8 |->
     GridIndex((i % Size) - 1 + (k % 3), (i \div Size) - 1 + (k \div 3))]]

\* get_square(x + dx, y + dy) at position k of the block around square
BlockSquare(s, square, k) ==
  IF Block[square[2]][k] < 0 THEN None ELSE Square(s, Block[square[2]][k])

\* calculate_mines that counts the square itself with its neighbours: the
\* fault C14 excludes
calculate_mines_counts_itself(s, square) ==
  Cardinality({k \in 0..8 : BlockSquare(s, square, k) \in s.mine_squares})

calculate_mines(s, square) ==
  Cardinality({k \in 0..8 :
     /\ BlockSquare(s, square, k) # square
     /\ BlockSquare(s, square, k) \in s.mine_squares})

calculate_flags(s, square) ==
  Cardinality({k \in 0..8 :
     /\ BlockSquare(s, square, k) # square
     /\ BlockSquare(s, square, k) \in s.marked_squares})

\* ---- Timer ------------------------------------------------------------------
timer_start(s) == [s EXCEPT !.timer_started = TRUE]
timer_stop(s) == [s EXCEPT !.timer_started = FALSE]

\* ---- mine generation --------------------------------------------------------
\* the outcomes of random.sample(list_of_valid_squares, count) after pop(exclude)
\* (pop takes a negative index from the end of the list)
Samples(exclude, count) ==
  {smp \in SUBSET (Indexes \ {exclude % NumSquares}) : Cardinality(smp) = count}

generate_mines(s, exclude) ==
  [s EXCEPT !.mine_squares = @ \cup {Square(s, i) : i \in s.sample},
            !.generations = @ + 1]

first_click(s, x, y) == timer_start(generate_mines(s, y * Size + x))

\* ---- the call stack ----------------------------------------------------------

\* a frame: the loop of activate_adjacent_squares(square) or of
\* end_game(message) about to examine position pos, or the check_win() that
\* activate_square runs once the cascade it started has returned
Frame(kind, square, pos, message) ==
  [kind |-> kind, square |-> square, pos |-> pos, message |-> message]

Push(s, frame) == [s EXCEPT !.stack = Append(@, frame)]
Pop(s) == [s EXCEPT !.stack = SubSeq(@, 1, Len(@) - 1)]
Top(s) == s.stack[Len(s.stack)]
\* the loop of the frame on top moves on to position pos
Advance(s, pos) == [s EXCEPT !.stack[Len(s.stack)].pos = pos]

\* ---- reveal -----------------------------------------------------------------
\* end_game: the timer stops, then the loop "for y ... for x ..." starts
end_game(s, message) ==
  Push([timer_stop(s) EXCEPT !.end_games = Append(@, message)],
       Frame("end_game", None, 0, message))

\* ---- high scores ---------------------------------------------------------------
\* a record is modelled by its "time", the key save_highscores sorts by

\* scores with the time put behind the last time not above it
Insert(scores, time) ==
  LET before == Cardinality({k \in DOMAIN scores : scores[k] <= time})
  IN SubSeq(scores, 1, before) \o <<time>> \o SubSeq(scores, before + 1, Len(scores))

\* sorted(scores, key=time): a stable sort
RECURSIVE sorted(_)
sorted(scores) ==
  IF scores = <<>> THEN <<>>
  ELSE Insert(sorted(SubSeq(scores, 1, Len(scores) - 1)), scores[Len(scores)])

\* save_highscores that cuts the list as it is, without sorting it: the fault
\* C25 excludes
save_highscores_unsorted(table) ==
  [size \in DOMAIN table |->
     SubSeq(table[size], 1,
            IF Len(table[size]) > ScoreCap THEN ScoreCap ELSE Len(table[size]))]

\* save_highscores: every list sorted and cut to its first ScoreCap records
save_highscores(table) ==
  [size \in DOMAIN table |->
     SubSeq(sorted(table[size]), 1,
            IF Len(table[size]) > ScoreCap THEN ScoreCap ELSE Len(table[size]))]

\* the end of check_win: the record is appended under the key of the mine
\* count and the table is saved
add_score(table, mines, time) ==
  save_highscores([table EXCEPT ![mines] = Append(@, time)])

\* the table of a new save file, and a table with ScoreCap records of the
\* time GameTime under every key
EmptyScores == [size \in MineCounts |-> <<>>]
FullScores == [size \in MineCounts |-> [k \in 1 .. ScoreCap |-> GameTime]]

\* the end of check_win, after end_game has returned
save_score(s) ==
  [s EXCEPT !.records = Append(@, s.undiscovered_mines),
            !.highscores = add_score(@, s.undiscovered_mines, GameTime)]

\* check_win without the test of the win marker: the fault C16 excludes
check_win_unguarded(s) ==
  IF s.undiscovered_squares <= 0
    THEN end_game(Push([s EXCEPT !.has_won = TRUE],
                       Frame("save_score", None, 0, "")), "You win")
    ELSE s

\* the rest of check_win waits in a frame under end_game's
check_win(s) ==
  IF s.has_won THEN s
  ELSE IF s.undiscovered_squares <= 0
    THEN end_game(Push([s EXCEPT !.has_won = TRUE],
                       Frame("save_score", None, 0, "")), "You win")
    ELSE s

\* activate_adjacent_squares: the loop over the 3x3 block starts
activate_adjacent_squares(s, square) ==
  Push(s, Frame("adjacent", square, 0, ""))

\* the branch "square is a mine" of activate_square
\* reveal_mine with the call of end_game left out: the fault C4 excludes
reveal_mine_without_end_game(s, square, check_adjacent) ==
  [s EXCEPT !.activated_squares = @ \cup {square},
            !.activations = @ + 1,
            !.images[square[2]] = IF check_adjacent THEN IMG_EXPLODED ELSE IMG_BOMB]

\* reveal_mine that shows every mine it reveals as the exploded mine: the
\* fault C6 excludes
reveal_mine_always_exploded(s, square, check_adjacent) ==
  end_game([s EXCEPT !.activated_squares = @ \cup {square},
                     !.activations = @ + 1,
                     !.images[square[2]] = IMG_EXPLODED], "You lose")

reveal_mine(s, square, check_adjacent) ==
  end_game([s EXCEPT !.activated_squares = @ \cup {square},
                     !.activations = @ + 1,
                     !.images[square[2]] =
                        IF check_adjacent THEN IMG_EXPLODED ELSE IMG_BOMB],
           "You lose")

\* the branch "square is safe" of activate_square; the check_win that follows
\* the cascade waits in a frame under the cascade's
\* reveal_safe that cascades from a square whatever its count: the fault C7
\* excludes
reveal_safe_always_cascades(s, square, check_adjacent) ==
  LET t == [s EXCEPT !.activated_squares = @ \cup {square},
                     !.activations = @ + 1,
                      !.undiscovered_squares = @ - 1,
                      !.images[square[2]] = calculate_mines(s, square)]
  IN IF ~check_adjacent THEN t
     ELSE activate_adjacent_squares(
            Push(t, Frame("check_win", None, 0, "")), square)

reveal_safe(s, square, check_adjacent) ==
  LET t == [s EXCEPT !.activated_squares = @ \cup {square},
                     !.activations = @ + 1,
                      !.undiscovered_squares = @ - 1,
                      !.images[square[2]] = calculate_mines(s, square)]
  IN IF ~check_adjacent THEN t
     ELSE IF t.images[square[2]] = 0
       THEN activate_adjacent_squares(
              Push(t, Frame("check_win", None, 0, "")), square)
       ELSE check_win(t)

\* activate_square after the first-click test
\* activate_known that chords without comparing mines and flags: the fault
\* C8 excludes
activate_known_always_chords(s, square, check_adjacent) ==
  IF square \in s.marked_squares THEN s
  ELSE IF square \in s.activated_squares
    THEN activate_adjacent_squares(s, square)
  ELSE IF square \in s.mine_squares
    THEN reveal_mine(s, square, check_adjacent)
    ELSE reveal_safe(s, square, check_adjacent)

\* activate_known without the test for a marked square: the fault C10
\* excludes
activate_known_through_flags(s, square, check_adjacent) ==
  IF square \in s.activated_squares
    THEN IF calculate_mines(s, square) = calculate_flags(s, square)
           THEN activate_adjacent_squares(s, square) ELSE s
  ELSE IF square \in s.mine_squares
    THEN reveal_mine(s, square, check_adjacent)
    ELSE reveal_safe(s, square, check_adjacent)

\* activate_known whose test for a marked square protects safe squares only:
\* the fault C23 excludes
activate_known_flag_guards_safe_only(s, square, check_adjacent) ==
  IF square \in s.marked_squares /\ square \notin s.mine_squares THEN s
  ELSE IF square \in s.activated_squares
    THEN IF calculate_mines(s, square) = calculate_flags(s, square)
           THEN activate_adjacent_squares(s, square) ELSE s
  ELSE IF square \in s.mine_squares
    THEN reveal_mine(s, square, check_adjacent)
    ELSE reveal_safe(s, square, check_adjacent)

activate_known(s, square, check_adjacent) ==
  IF square \in s.marked_squares THEN s
  ELSE IF square \in s.activated_squares
    THEN IF calculate_mines(s, square) = calculate_flags(s, square)
           THEN activate_adjacent_squares(s, square) ELSE s
  ELSE IF square \in s.mine_squares
    THEN reveal_mine(s, square, check_adjacent)
    ELSE reveal_safe(s, square, check_adjacent)

\* activate_square for coordinates outside the grid. With no square
\* activated first_click runs: pop raises IndexError for an index outside the
\* list. get_square returns None: the code returns if None is marked, and else
\* calculate_mines_and_flags(None) raises TypeError, for a None not yet
\* activated after it is appended to the activated squares and the
\* undiscovered-squares counter is lowered.
activate_outside(s, x, y) ==
  LET t == IF s.activated_squares # {} THEN s
           ELSE IF y * Size + x >= NumSquares \/ y * Size + x < -NumSquares
             THEN [s EXCEPT !.raised = TRUE]
             ELSE first_click(s, x, y)
  IN IF t.raised \/ None \in t.marked_squares THEN t
     ELSE IF None \in t.activated_squares THEN [t EXCEPT !.raised = TRUE]
     ELSE [t EXCEPT !.activated_squares = @ \cup {None},
                    !.activations = @ + 1,
                    !.undiscovered_squares = @ - 1,
                    !.raised = TRUE]

\* the activate_square calls that are running when the stack is s.stack: the
\* loop of each frame is run by activate_adjacent_squares or end_game, which
\* an activate_square call has called, itself or through check_win
Nesting(s) ==
  Cardinality({k \in DOMAIN s.stack : s.stack[k].kind \in {"adjacent", "end_game"}})

\* a call of activate_square begins
Enter(s) ==
  [s EXCEPT !.depth = IF @ < Nesting(s) + 1 THEN Nesting(s) + 1 ELSE @]

activate_square(s, x, y, check_adjacent) ==
  IF GridIndex(x, y) < 0 THEN activate_outside(Enter(s), x, y)
  ELSE IF s.activated_squares = {}
    THEN activate_known(first_click(Enter(s), x, y), get_square(s, x, y),
                        check_adjacent)
    ELSE activate_known(Enter(s), get_square(s, x, y), check_adjacent)

\* Pending without the test of the activated squares: the fault C19 excludes
Pending_ignores_activated(s, square, k) ==
  BlockSquare(s, square, k) # None

\* position k of the 3x3 block holds a square the loop of
\* activate_adjacent_squares activates: one neither activated nor None
Pending(s, square, k) ==
  /\ BlockSquare(s, square, k) \notin s.activated_squares
  /\ BlockSquare(s, square, k) # None

\* the loop of activate_adjacent_squares from position top.pos on: it passes
\* the positions it "continue"s over and activates the next one, or returns
activate_adjacent_loop(s, top) ==
  IF \A i \in top.pos .. 8 : ~Pending(s, top.square, i)
    THEN Pop(s)
    ELSE LET i == CHOOSE k \in top.pos .. 8 :
                    /\ Pending(s, top.square, k)
                    /\ \A j \in top.pos .. (k - 1) : ~Pending(s, top.square, j)
         IN activate_square(Advance(s, i + 1),
                            BlockX(top.square, i), BlockY(top.square, i), TRUE)

\* the loop of end_game from position top.pos on: it passes the activated
\* squares and activates the next one, or shows the message, unbinds every
\* square and returns
\* end_game that shows the message without activating what is left: the
\* fault C5 excludes
end_game_loop_without_sweep(s, top) ==
  [Pop(s) EXCEPT !.ending_text = top.message, !.bound = FALSE]

\* end_game_loop that writes its message only while no message is shown: the
\* fault C13 excludes
end_game_loop_keeps_shown_text(s, top) ==
  IF \A i \in top.pos .. (NumSquares - 1) : Square(s, i) \in s.activated_squares
    THEN [Pop(s) EXCEPT !.ending_text = IF @ = "" THEN top.message ELSE @,
                        !.bound = FALSE]
    ELSE LET i == CHOOSE k \in top.pos .. (NumSquares - 1) :
                    /\ Square(s, k) \notin s.activated_squares
                    /\ \A j \in top.pos .. (k - 1) : Square(s, j) \in s.activated_squares
         IN activate_square(Advance(s, i + 1), i % Size, i \div Size, FALSE)

end_game_loop(s, top) ==
  IF \A i \in top.pos .. (NumSquares - 1) : Square(s, i) \in s.activated_squares
    THEN [Pop(s) EXCEPT !.ending_text = top.message, !.bound = FALSE]
    ELSE LET i == CHOOSE k \in top.pos .. (NumSquares - 1) :
                    /\ Square(s, k) \notin s.activated_squares
                    /\ \A j \in top.pos .. (k - 1) : Square(s, j) \in s.activated_squares
         IN activate_square(Advance(s, i + 1), i % Size, i \div Size, FALSE)

\* one step of the frame on top of the stack
Step(s) ==
  IF s.stack = <<>> THEN s
  ELSE IF Top(s).kind = "adjacent" THEN activate_adjacent_loop(s, Top(s))
  ELSE IF Top(s).kind = "end_game" THEN end_game_loop(s, Top(s))
  ELSE IF Top(s).kind = "save_score" THEN save_score(Pop(s))
  ELSE check_win(Pop(s))

\* 2^n steps, or fewer when the stack empties
RECURSIVE Iterate(_, _)
Iterate(n, s) ==
  IF s.stack = <<>> THEN s
  ELSE IF n = 0 THEN Step(s)
  ELSE LET t == Iterate(n - 1, s) IN Iterate(n - 1, t)

\* the handler's call, run until it returns
Run(s) == Iterate(LogSteps, s)

\* ---- flags ------------------------------------------------------------------
\* mark_square without the test of the mines label: the fault C9 excludes
mark_square_uncapped(s, x, y) ==
  LET square == get_square(s, x, y)
  IN IF square \in s.activated_squares THEN s
     ELSE IF square \in s.marked_squares
       THEN [s EXCEPT !.marked_squares = @ \ {square},
                      !.images[square[2]] = IMG_EMPTY,
                      !.mines_label = @ + 1]
     ELSE [s EXCEPT !.marked_squares = @ \cup {square},
                    !.images[square[2]] = IMG_FLAGGED,
                    !.mines_label = @ - 1]

\* mark_square that runs first_click while no square is activated, as
\* activate_square does: the fault C22 excludes
mark_square_generates(s, x, y) ==
  LET t == IF s.activated_squares = {} THEN first_click(s, x, y) ELSE s
      square == get_square(t, x, y)
  IN IF square \in t.activated_squares THEN t
     ELSE IF square \in t.marked_squares
       THEN [t EXCEPT !.marked_squares = @ \ {square},
                      !.images[square[2]] = IMG_EMPTY,
                      !.mines_label = @ + 1]
     ELSE IF t.mines_label > 0
       THEN [t EXCEPT !.marked_squares = @ \cup {square},
                      !.images[square[2]] = IMG_FLAGGED,
                      !.mines_label = @ - 1]
     ELSE t

\* mark_square that takes a flag off without giving the mines label its one
\* back: the fault C12 excludes
mark_square_unflag_keeps_label(s, x, y) ==
  LET square == get_square(s, x, y)
  IN IF square \in s.activated_squares THEN s
     ELSE IF square \in s.marked_squares
       THEN [s EXCEPT !.marked_squares = @ \ {square},
                      !.images[square[2]] = IMG_EMPTY]
     ELSE IF s.mines_label > 0
       THEN [s EXCEPT !.marked_squares = @ \cup {square},
                      !.images[square[2]] = IMG_FLAGGED,
                      !.mines_label = @ - 1]
     ELSE s

\* for coordinates outside the grid square is None: None.configure raises
\* AttributeError after the list of marked squares has changed
mark_square(s, x, y) ==
  LET square == get_square(s, x, y)
  IN IF square \in s.activated_squares THEN s
     ELSE IF square \in s.marked_squares
       THEN IF square = None
              THEN [s EXCEPT !.marked_squares = @ \ {square}, !.raised = TRUE]
              ELSE [s EXCEPT !.marked_squares = @ \ {square},
                             !.images[square[2]] = IMG_EMPTY,
                             !.mines_label = @ + 1]
     ELSE IF s.mines_label > 0
       THEN IF square = None
              THEN [s EXCEPT !.marked_squares = @ \cup {square}, !.raised = TRUE]
              ELSE [s EXCEPT !.marked_squares = @ \cup {square},
                             !.images[square[2]] = IMG_FLAGGED,
                             !.mines_label = @ - 1]
     ELSE s

\* ---- start / restart --------------------------------------------------------
\* start_game that leaves the mines label as the last game left it: the fault
\* C20 excludes
start_game_keeps_label(s, amount) ==
  [s EXCEPT !.has_won = FALSE,
            !.game = @ + 1,
            !.activated_squares = {},
            !.mine_squares = {},
            !.undiscovered_mines = amount,
            !.timer_started = FALSE,
            !.images = [i \in Indexes |-> IMG_EMPTY],
            !.bound = TRUE,
            !.undiscovered_squares = NumSquares - amount,
            !.ending_text = "",
            !.generations = 0,
            !.end_games = <<>>,
            !.records = <<>>,
            !.activations = 0]

\* start_game that keeps the Labels of the game before instead of creating
\* new ones: the fault C21 excludes
start_game_keeps_squares(s, amount) ==
  [s EXCEPT !.has_won = FALSE,
            !.activated_squares = {},
            !.mine_squares = {},
            !.undiscovered_mines = amount,
            !.timer_started = FALSE,
            !.images = [i \in Indexes |-> IMG_EMPTY],
            !.bound = TRUE,
            !.mines_label = amount,
            !.undiscovered_squares = NumSquares - amount,
            !.ending_text = "",
            !.generations = 0,
            !.end_games = <<>>,
            !.records = <<>>,
            !.activations = 0]

\* amount is int(self.__mines_amount.get())
start_game(s, amount) ==
  [s EXCEPT !.has_won = FALSE,
            !.game = @ + 1,
            !.activated_squares = {},
            !.mine_squares = {},
            !.undiscovered_mines = amount,
            !.timer_started = FALSE,
            !.images = [i \in Indexes |-> IMG_EMPTY],
            !.bound = TRUE,
            !.mines_label = amount,
            !.undiscovered_squares = NumSquares - amount,
            !.ending_text = "",
            !.generations = 0,
            !.end_games = <<>>,
            !.records = <<>>,
            !.activations = 0]

\* ---- the state machine ------------------------------------------------------
Init ==
  \E amount \in MineCounts :
    /\ game = 1
    /\ has_won = FALSE
    /\ marked_squares = {}
    /\ activated_squares = {}
    /\ mine_squares = {}
    /\ undiscovered_mines = amount
    /\ mines_label = amount
    /\ undiscovered_squares = NumSquares - amount
    /\ ending_text = ""
    /\ images = [i \in Indexes |-> IMG_EMPTY]
    /\ bound = TRUE
    /\ timer_started = FALSE
    /\ generations = 0
    /\ end_games = <<>>
    /\ records = <<>>
    /\ activations = 0
    /\ highscores = FullScores
    /\ stack = <<>>
    /\ chorded = FALSE

\* the samples the first click of a game can draw for its mines; a later
\* click draws nothing
Draws(x, y) ==
  IF activated_squares = {}
    THEN Samples(y * Size + x, undiscovered_mines) ELSE {{}}

\* the object when the left-click handler has returned from the square at
\* (x, y)
Reveal(x, y, smp) == Run(activate_square(Self(smp), x, y, TRUE))

\* left click on the square at (x, y); limit bounds the generate_mines calls
\* of one game
LeftClickUpTo(x, y, limit) ==
  /\ bound
  /\ activated_squares = {} => generations < limit
  /\ \E smp \in Draws(x, y) : \E r \in {Reveal(x, y, smp)} : Commit(r)
  /\ chorded' = (chorded \/ (/\ <<game, y * Size + x>> \in activated_squares
                              /\ activated_squares' # activated_squares))

LeftClick(x, y) == LeftClickUpTo(x, y, MaxGenerations)

\* right click on the square at (x, y)
RightClick(x, y) ==
  /\ bound
  /\ \E s \in {Self({})} : \E r \in {mark_square(s, x, y)} : Commit(r)
  /\ chorded' = chorded

\* the Restart button, with the spinbox showing amount
Restart(amount) ==
  /\ game < MaxGames
  /\ \E s \in {Self({})} : \E r \in {start_game(s, amount)} : Commit(r)
  /\ chorded' = FALSE

\* one game, from its start
Next ==
  \/ \E x \in Coords, y \in Coords : LeftClick(x, y)
  \/ \E x \in Coords, y \in Coords : RightClick(x, y)

Spec == Init /\ [][Next]_vars

\* games that follow each other
NextRestart ==
  \/ \E x \in Coords, y \in Coords : LeftClickUpTo(x, y, RestartGenerations)
  \/ \E x \in Coords, y \in Coords : RightClick(x, y)
  \/ \E amount \in MineCounts : Restart(amount)

SpecRestart == Init /\ [][NextRestart]_vars

\* the high scores over many wins: the save file is new, and a game with
\* mines mines is won at time time
InitScores ==
  \E amount \in MineCounts :
    /\ game = 1
    /\ has_won = FALSE
    /\ marked_squares = {}
    /\ activated_squares = {}
    /\ mine_squares = {}
    /\ undiscovered_mines = amount
    /\ mines_label = amount
    /\ undiscovered_squares = NumSquares - amount
    /\ ending_text = ""
    /\ images = [i \in Indexes |-> IMG_EMPTY]
    /\ bound = TRUE
    /\ timer_started = FALSE
    /\ generations = 0
    /\ end_games = <<>>
    /\ records = <<>>
    /\ activations = 0
    /\ highscores = EmptyScores
    /\ stack = <<>>
    /\ chorded = FALSE

SaveScore(mines, time) ==
  /\ highscores' = add_score(highscores, mines, time)
  /\ UNCHANGED gameVars

NextScores == \E mines \in MineCounts, time \in Times : SaveScore(mines, time)

SpecScores == InitScores /\ [][NextScores]_vars

\* ---- the game as the player sees it -------------------------------------------
Revealed == {i \in Indexes : <<game, i>> \in activated_squares}
Flagged == {i \in Indexes : <<game, i>> \in marked_squares}
Mines == {i \in Indexes : <<game, i>> \in mine_squares}
Hidden == Indexes \ (Revealed \cup Flagged)
Exploded == {i \in Indexes : images[i] = IMG_EXPLODED}
Won == ending_text = "You win"
Lost == ending_text = "You lose"

Abs(n) == IF n < 0 THEN -n ELSE n

\* the 8 neighbours of a cell that lie in the grid
Neighbours(i) ==
  {j \in Indexes \ {i} : /\ Abs((j % Size) - (i % Size)) <= 1
                         /\ Abs((j \div Size) - (i \div Size)) <= 1}

AdjacentMines(i, mines) == Cardinality(Neighbours(i) \cap mines)

\* the cells a cascade from the cells of region reveals among the cells of
\* hidden: each zero-count cell of the region brings its hidden neighbours in
RECURSIVE Cascade(_, _, _)
Cascade(region, hidden, mines) ==
  LET more == {n \in hidden : \E z \in region :
                 AdjacentMines(z, mines) = 0 /\ n \in Neighbours(z)}
  IN IF more \subseteq region THEN region
     ELSE Cascade(region \cup more, hidden, mines)

\* every handler has returned
Returned == stack = <<>>

\* the same views of the object a handler returns
RevealedOf(s) == {i \in Indexes : <<s.game, i>> \in s.activated_squares}

FlaggedOf(s) == {i \in Indexes : <<s.game, i>> \in s.marked_squares}

MinesOf(s) == {i \in Indexes : <<s.game, i>> \in s.mine_squares}

\* ---- C1 ------------------------------------------------------------------------
\* C1 (first-click safety): the command that reveals the first cell of a game
\* reveals no mine: no cell shows the exploded mine when it returns.
FirstClickSafe ==
  [][activated_squares = {} => \A i \in Indexes : images'[i] # IMG_EXPLODED]_vars

\* ---- C2 ------------------------------------------------------------------------
\* C2 (one mine set per game): once the mines of a game are generated no
\* later command adds to them, and from then on the mine set holds exactly
\* mineCount distinct cells.
MinesGeneratedOnce ==
  /\ [](generations >= 1 => Cardinality(Mines) = undiscovered_mines)
  /\ [][generations >= 1 => mine_squares' = mine_squares]_vars

\* ---- C3 ------------------------------------------------------------------------
\* C3 (win detection): after every command of a game that is not lost, the
\* game is Won if and only if every non-mine cell is revealed.  (After a loss
\* the sweep reveals the safe cells as well, so the claim is read on the games
\* that are not lost.)
WonIffAllSafeRevealed ==
  ~Lost => (Won <=> (Indexes \ Mines) \subseteq Revealed)

\* ---- C4 ------------------------------------------------------------------------
\* C4 (loss detection): a left click on a hidden unflagged cell that is a
\* mine, and a left click on a revealed cell whose flagged neighbours are as
\* many as its adjacent mines while a hidden unflagged neighbour is a mine,
\* both return with the game Lost.
MineRevealedIsLoss ==
  bound =>
    \A x \in Coords, y \in Coords : \A smp \in Draws(x, y) :
      LET r == Reveal(x, y, smp)
      IN /\ ((y * Size + x) \in Hidden /\ (y * Size + x) \in MinesOf(r))
            => r.ending_text = "You lose"
         /\ (/\ (y * Size + x) \in Revealed
             /\ AdjacentMines(y * Size + x, Mines)
                  = Cardinality(Neighbours(y * Size + x) \cap Flagged)
             /\ Neighbours(y * Size + x) \cap Hidden \cap Mines # {})
            => r.ending_text = "You lose"

\* a chord has revealed a mine: the game is lost
ChordLostGame ==
  chorded /\ Lost /\ Exploded # {}

\* ---- C5 ------------------------------------------------------------------------
\* C5 as stated (end-of-game sweep): once the game is Won or Lost every cell of
\* the grid is revealed.
SweepRevealsEveryCell ==
  (Won \/ Lost) => Revealed = Indexes

\* C5 as amended: once the game is Won or Lost every cell that is not flagged
\* is revealed and the flagged cells are still hidden and flagged; every mine
\* that is not flagged is shown as a mine, the exploded one or the normal one.
SweepRevealsUnflagged ==
  (Won \/ Lost) =>
     /\ Revealed = Indexes \ Flagged
     /\ \A i \in Flagged : images[i] = IMG_FLAGGED
     /\ \A i \in Mines \ Flagged : images[i] \in {IMG_BOMB, IMG_EXPLODED}

\* a lost game whose sweep has passed over a flagged cell
LostWithFlagLeft ==
  Lost /\ Flagged # {} /\ Revealed = Indexes \ Flagged

\* ---- C6 ------------------------------------------------------------------------
\* C6 (exploded marking): in a lost game exactly one cell shows the exploded
\* mine, it is a revealed mine, and every other revealed mine shows the
\* normal mine; in a game that is not lost no cell shows the exploded mine;
\* the mine that a left click reveals itself is the one shown exploded.
ExplodedMarking ==
  /\ Lost => /\ Cardinality(Exploded) = 1
             /\ Exploded \subseteq Mines \cap Revealed
             /\ \A i \in (Mines \cap Revealed) \ Exploded : images[i] = IMG_BOMB
  /\ ~Lost => Exploded = {}
  /\ bound =>
       \A x \in Coords, y \in Coords : \A smp \in Draws(x, y) :
         LET r == Reveal(x, y, smp)
         IN ((y * Size + x) \in Hidden /\ (y * Size + x) \in MinesOf(r))
            => r.images[y * Size + x] = IMG_EXPLODED

\* a lost game that shows the exploded mine and a normal mine
LostWithOtherMineShown ==
  Lost /\ \E i \in Indexes, j \in Indexes :
            images[i] = IMG_EXPLODED /\ images[j] = IMG_BOMB

\* ---- C7 ------------------------------------------------------------------------
\* C7 as stated (cascade extent): a left click on a hidden, unflagged safe cell
\* reveals exactly the cascade from that cell: the cell, and while a revealed
\* cell has zero adjacent mines its hidden unflagged neighbours.
CascadeExact ==
  bound =>
    \A x \in Coords, y \in Coords : \A smp \in Draws(x, y) :
      LET r == Reveal(x, y, smp)
      IN ((y * Size + x) \in Hidden /\ (y * Size + x) \notin MinesOf(r))
         => RevealedOf(r) \ Revealed = Cascade({y * Size + x}, Hidden, MinesOf(r))

\* C7 as amended: the click reveals exactly the cascade from the cell unless
\* it wins the game; when it wins, the cascade is revealed and the sweep
\* reveals every other cell that is not flagged.
CascadeExactUnlessWon ==
  bound =>
    \A x \in Coords, y \in Coords : \A smp \in Draws(x, y) :
      LET r == Reveal(x, y, smp)
      IN ((y * Size + x) \in Hidden /\ (y * Size + x) \notin MinesOf(r))
         => IF r.ending_text = "You win"
              THEN /\ Cascade({y * Size + x}, Hidden, MinesOf(r)) \subseteq RevealedOf(r)
                   /\ RevealedOf(r) \ Revealed = Hidden
              ELSE RevealedOf(r) \ Revealed
                     = Cascade({y * Size + x}, Hidden, MinesOf(r))

\* a cascade has run and has left a safe cell hidden: the game goes on
CascadeLeftSafeCellHidden ==
  /\ ending_text = ""
  /\ ~chorded
  /\ \E i \in Revealed : images[i] = 0
  /\ Hidden \ Mines # {}

\* ---- C8 ------------------------------------------------------------------------
\* C8 (chording): a left click on a revealed cell whose flagged neighbours are
\* as many as its adjacent mines leaves every neighbour revealed or flagged
\* and no flag changed, and while the game goes on it has revealed exactly
\* the cascade from the neighbours that were hidden; with another number of
\* flagged neighbours it changes nothing.
Chording ==
  bound =>
    \A x \in Coords, y \in Coords :
      LET r == Reveal(x, y, {})
      IN (y * Size + x) \in Revealed
         => IF AdjacentMines(y * Size + x, Mines)
                 = Cardinality(Neighbours(y * Size + x) \cap Flagged)
              THEN /\ Neighbours(y * Size + x) \subseteq RevealedOf(r) \cup Flagged
                   /\ FlaggedOf(r) = Flagged
                   /\ r.ending_text = "" =>
                        RevealedOf(r) \ Revealed =
                          Cascade(Neighbours(y * Size + x) \cap Hidden, Hidden, Mines)
              ELSE Fields(r) = Self({})

\* a chord has revealed cells and the game goes on
ChordRevealed ==
  chorded /\ ending_text = "" /\ Flagged # {}

\* ---- C9 ------------------------------------------------------------------------
\* C9 (flag cap): at most mineCount cells of the grid are flagged, and a right
\* click on a hidden unflagged cell changes nothing once mineCount are.
FlagCap ==
  /\ [](Cardinality(Flagged) <= undiscovered_mines)
  /\ [][\A x \in Coords, y \in Coords :
          (/\ (y * Size + x) \in Hidden
           /\ Cardinality(Flagged) = undiscovered_mines
           /\ RightClick(x, y))
          => UNCHANGED vars]_vars

\* every flag is placed and a hidden cell is left to click
AllFlagsPlaced ==
  /\ bound
  /\ undiscovered_mines >= 1
  /\ Cardinality(Flagged) = undiscovered_mines
  /\ Hidden # {}

\* ---- C10 -----------------------------------------------------------------------
\* C10 (revealed or flagged, never both): no cell is revealed and flagged, and
\* a right click on a revealed cell changes nothing.
NeverRevealedAndFlagged ==
  /\ [](activated_squares \cap marked_squares = {})
  /\ [][\A x \in Coords, y \in Coords :
          ((y * Size + x) \in Revealed /\ RightClick(x, y)) => UNCHANGED vars]_vars

\* a won game whose cascades and sweep have passed over a flagged cell
WonWithFlagLeft ==
  Won /\ Flagged # {} /\ Revealed = Indexes \ Flagged

\* ---- C11 -----------------------------------------------------------------------
\* C11 (a left click on a flagged cell is a no-op): in every state of a game,
\* the state before the first reveal included, the left-click handler run on
\* a flagged cell returns with the mines, the revealed squares, the flags,
\* both counters, the timer and the outcome as they were.
RevealFlaggedNoOp ==
  bound =>
    \A x \in Coords, y \in Coords :
      (y * Size + x) \in Flagged =>
        \A smp \in Draws(x, y) :
          LET r == Reveal(x, y, smp)
          IN ~r.raised /\ Fields(r) = Self({})

\* ---- C12 -----------------------------------------------------------------------
\* C12 (two right clicks undo each other): in every state of a game in
\* progress, the right-click handler run twice in a row on the same cell that
\* is not revealed, flagged or not, returns with the flags, the mines label,
\* the undiscovered-squares counter and the cell's image as they were.
MarkTwiceRestores ==
  bound =>
    \A x \in Coords, y \in Coords :
      (y * Size + x) \notin Revealed =>
        LET r == mark_square(mark_square(Self({}), x, y), x, y)
        IN /\ r.marked_squares = marked_squares
           /\ r.mines_label = mines_label
           /\ r.undiscovered_squares = undiscovered_squares
           /\ r.images = images

\* a game in progress with a revealed cell, a flagged cell that the two
\* clicks unflag and flag again, and a hidden cell
MarkTwiceCases ==
  /\ bound
  /\ Revealed # {}
  /\ Flagged # {}
  /\ Hidden # {}

\* ---- C13 -----------------------------------------------------------------------
\* C13 as stated (the outcome is final and the sweep triggers nothing): in
\* every state between two commands a game that shows an outcome has entered
\* end_game once, shows the message of that call and has no click bindings,
\* and the outcome shown changes only by a restart.
TerminalOnceAndFinal ==
  /\ [](ending_text # "" =>
          /\ Len(end_games) = 1
          /\ ending_text = end_games[1]
          /\ ~bound)
  /\ [][ending_text # "" => (ending_text' = ending_text \/ game' # game)]_vars

\* C13 (the outcome is the first one and it is final): a game shows an outcome
\* exactly when end_game has been entered; the sweep enters end_game again for
\* every mine it reveals, and when the command has returned the game shows
\* the message of the first end_game call, "You win" exactly when the win
\* marker is set and never with an exploded mine, and has no click bindings;
\* the outcome shown changes only by a restart.
TerminalFirstAndFinal ==
  /\ [](ending_text = "" <=> end_games = <<>>)
  /\ [](ending_text # "" =>
          /\ ending_text = end_games[1]
          /\ \A k \in 2 .. Len(end_games) : end_games[k] = "You lose"
          /\ Won <=> has_won
          /\ Won => Exploded = {}
          /\ ~bound)
  /\ [][ending_text # "" => (ending_text' = ending_text \/ game' # game)]_vars

\* a won game whose sweep has entered end_game again for a mine
WonThenSweptMine ==
  Won /\ Len(end_games) >= 2

\* ---- C14 -----------------------------------------------------------------------
\* C14 (adjacent mine count): for every cell of the grid, corner and border
\* cells included, the count calculate_mines_and_flags computes is the number
\* of the cell's neighbours in the grid that are mines, the cell itself and
\* the positions outside the grid not counted; and every revealed safe cell
\* shows that number.
AdjacentCountExact ==
  \A i \in Indexes :
    /\ calculate_mines(Self({}), <<game, i>>) = AdjacentMines(i, Mines)
    /\ i \in Revealed \ Mines => images[i] = AdjacentMines(i, Mines)

\* a game in progress where the corner cell (0, 0) is revealed and shows 1,
\* and another revealed cell shows 0
CornerShowsOne ==
  /\ ending_text = ""
  /\ 0 \in Revealed
  /\ images[0] = 1
  /\ \E i \in Revealed : images[i] = 0

\* ---- C15 -----------------------------------------------------------------------
\* C15 (undiscovered-squares counter): in every state of a game in progress
\* whose mines are generated, the undiscovered-squares counter is the number
\* of cells that are neither mines nor revealed, and it is the number of
\* cells less the configured mine count less the revealed safe cells.
SafeCounterExact ==
  (ending_text = "" /\ generations >= 1) =>
    /\ undiscovered_squares = Cardinality(Indexes \ (Mines \cup Revealed))
    /\ undiscovered_squares =
         NumSquares - undiscovered_mines - Cardinality(Revealed \ Mines)

\* ---- C16 -----------------------------------------------------------------------
\* C16 (one record per won game): a game that shows "You win" has appended
\* exactly one record, under the key of its mine count, also when the win
\* came inside a cascade whose enclosing reveals each run check_win again;
\* a game that is lost or in progress has appended none.
ScoreOncePerWin ==
  /\ Won => records = <<undiscovered_mines>>
  /\ ~Won => records = <<>>

\* a game without mines that is won: every cell counts 0, so the last cell
\* was revealed inside the cascade from the clicked one
WonInsideCascade ==
  Won /\ undiscovered_mines = 0 /\ Len(records) = 1

\* ---- C17 -----------------------------------------------------------------------
\* C17 (the clock of a game): first_click, which starts the timer, has run
\* exactly once in a game with a revealed cell and not at all in a game
\* without one; the timer is not running while no cell is revealed, runs
\* while the game is in progress with a cell revealed, and is stopped in a
\* game that shows an outcome.
ClockStartedOnce ==
  /\ Revealed = {} => (~timer_started /\ generations = 0)
  /\ Revealed # {} => generations = 1
  /\ (Revealed # {} /\ ending_text = "") => timer_started
  /\ ending_text # "" => ~timer_started

\* ---- C18 -----------------------------------------------------------------------
\* the coordinates next to the grid and in it
AnyCoords == -1 .. Size

\* C18 (coordinates outside the grid): in every reachable state, mark_square
\* and activate_square called with x or y outside 0 .. Size-1 end by an
\* exception and leave every field of the object as it was.
OutsideRejected ==
  \A x \in AnyCoords, y \in AnyCoords :
    (x \notin Coords \/ y \notin Coords) =>
      /\ LET r == mark_square(Self({}), x, y)
         IN r.raised /\ Fields(r) = Self({})
      /\ \A smp \in Draws(x, y) :
           LET r == Reveal(x, y, smp)
           IN r.raised /\ Fields(r) = Self({})

\* ---- C19 -----------------------------------------------------------------------
\* C19 (a left click terminates): every square has been appended to the
\* activated squares at most once since the game started; and the left-click
\* handler run on any cell of a game in progress returns (its call stack is
\* empty after at most 2^LogSteps steps), with never more than Size*Size
\* calls of activate_square running at one time and every square appended at
\* most once.
RevealTerminates ==
  /\ activations = Cardinality(activated_squares)
  /\ bound =>
       \A x \in Coords, y \in Coords :
         \A smp \in Draws(x, y) :
           LET r == Reveal(x, y, smp)
           IN /\ r.stack = <<>>
              /\ r.depth <= NumSquares
              /\ r.activations = Cardinality(r.activated_squares)

\* a game in progress where a click starts a cascade that runs Size*Size
\* calls of activate_square inside each other and wins the game
DeepestCascade ==
  /\ bound
  /\ \E x \in Coords, y \in Coords :
       \E smp \in Draws(x, y) :
         LET r == Reveal(x, y, smp)
         IN /\ r.stack = <<>>
            /\ r.depth = NumSquares
            /\ r.ending_text = "You win"

\* ---- C20 -----------------------------------------------------------------------
\* C20 (mines label): in every state, the state right after a restart that
\* follows a game with flags included, the mines label shows the configured
\* mine count less the flagged cells of the current grid, and is not negative.
MinesLabelExact ==
  /\ mines_label = undiscovered_mines - Cardinality(Flagged)
  /\ mines_label >= 0

\* a game started by Restart while squares of the game before are still in
\* the marked squares, with a flag of its own
FlaggedAfterRestart ==
  /\ game >= 2
  /\ \E square \in marked_squares : square[1] < game
  /\ Flagged # {}

\* ---- C21 -----------------------------------------------------------------------
\* the object without the squares of earlier games that are still in the
\* marked squares
Current(s) ==
  [s EXCEPT !.marked_squares = {square \in @ : square[1] = s.game}]

\* C21 (restart): in every state, start_game with any mine count returns a
\* game in which no cell of the new grid is revealed, flagged or a mine, every
\* square shows the empty image and is bound, the mines label is the mine
\* count, the undiscovered-squares counter is the number of cells less the
\* mine count, the win marker and the ending text are cleared and the timer
\* is stopped; and the squares that earlier games left in the marked squares
\* change the result of no click: with or without them a right click and a
\* left click on any cell return the same object.
RestartFresh ==
  /\ \A amount \in MineCounts :
       LET r == start_game(Self({}), amount)
       IN /\ RevealedOf(r) = {} /\ r.activated_squares = {}
          /\ FlaggedOf(r) = {}
          /\ r.mine_squares = {}
          /\ r.images = [i \in Indexes |-> IMG_EMPTY]
          /\ r.bound
          /\ r.undiscovered_mines = amount
          /\ r.mines_label = amount
          /\ r.undiscovered_squares = NumSquares - amount
          /\ ~r.has_won
          /\ r.ending_text = ""
          /\ ~r.timer_started
  /\ (bound /\ Current(Self({})) # Self({})) =>
       \A x \in Coords, y \in Coords :
         /\ Current(mark_square(Self({}), x, y))
              = mark_square(Current(Self({})), x, y)
         /\ \A smp \in Draws(x, y) :
              Current(Reveal(x, y, smp))
                = Run(activate_square(Current(Self(smp)), x, y, TRUE))

\* a game started by Restart in which a cell is revealed whose square of the
\* game before is still in the marked squares
RevealedOverOldFlag ==
  /\ game >= 2
  /\ \E square \in marked_squares : square[1] < game /\ square[2] \in Revealed

\* ---- C22 -----------------------------------------------------------------------
\* C22 (what a right click changes): in every state of a game in progress,
\* the right-click handler run on any cell of the grid returns without an
\* exception and changes at most the marked squares, by the clicked square
\* only, that square's image and the mines label: the label goes down by one
\* with a flag placed, up by one with a flag removed and stays with the flags.
\* The activated squares, the mines and their generation count, the
\* undiscovered-squares counter, the timer, the win marker, the ending text
\* and the bindings stay as they were.
MarkFrame ==
  bound =>
    \A x \in Coords, y \in Coords :
      LET r == mark_square(Self({}), x, y)
          i == y * Size + x
      IN /\ r = [Self({}) EXCEPT !.marked_squares = r.marked_squares,
                                 !.images[i] = r.images[i],
                                 !.mines_label = r.mines_label]
         /\ r.marked_squares \ {<<game, i>>} = marked_squares \ {<<game, i>>}
         /\ \/ /\ FlaggedOf(r) = Flagged
               /\ r.mines_label = mines_label
               /\ r.images = images
            \/ /\ FlaggedOf(r) = Flagged \cup {i} /\ i \notin Flagged
               /\ r.mines_label = mines_label - 1
               /\ r.images[i] = IMG_FLAGGED
            \/ /\ FlaggedOf(r) = Flagged \ {i} /\ i \in Flagged
               /\ r.mines_label = mines_label + 1
               /\ r.images[i] = IMG_EMPTY

\* a game with a flag placed before any click has generated the mines
FlaggedBeforeMines ==
  /\ bound
  /\ Flagged # {}
  /\ generations = 0
  /\ mine_squares = {}
  /\ mines_label = undiscovered_mines - 1

\* ---- C23 -----------------------------------------------------------------------
\* the flagged neighbours of cell i are its neighbours that are mines
FlagsOnMines(i) == Neighbours(i) \cap Flagged = Neighbours(i) \cap Mines

\* C23 as stated (safe chording): a left click on a revealed cell whose
\* flagged neighbours are exactly its neighbours that are mines returns with
\* no mine among the cells it has revealed and with the game not lost.
SafeChordRevealsNoMine ==
  bound =>
    \A x \in Coords, y \in Coords :
      ((y * Size + x) \in Revealed /\ FlagsOnMines(y * Size + x)) =>
        LET r == Reveal(x, y, {})
        IN /\ (RevealedOf(r) \ Revealed) \cap Mines = {}
           /\ r.ending_text # "You lose"

\* C23 (safe chording, the sweep of a won game apart): a left click on a
\* revealed cell whose flagged neighbours are exactly its neighbours that are
\* mines returns with the game not lost, no mine exploded, the mines and the
\* flags as they were, and, while the game goes on, no mine among the cells
\* it has revealed; when the chord wins the game, the mines it has revealed
\* are those the sweep shows with the mine image.
SafeChordNeverLoses ==
  bound =>
    \A x \in Coords, y \in Coords :
      ((y * Size + x) \in Revealed /\ FlagsOnMines(y * Size + x)) =>
        LET r == Reveal(x, y, {})
        IN /\ r.ending_text # "You lose"
           /\ \A i \in Indexes : r.images[i] # IMG_EXPLODED
           /\ MinesOf(r) = Mines
           /\ FlaggedOf(r) = Flagged
           /\ r.ending_text = "" => (RevealedOf(r) \ Revealed) \cap Mines = {}
           /\ r.ending_text = "You win" =>
                /\ r.has_won
                /\ (RevealedOf(r) \ Revealed) \cap Mines = Mines \ Flagged
                /\ \A i \in Mines \ Flagged : r.images[i] = IMG_BOMB

\* a game in progress where a chord on a cell whose flagged neighbours are
\* its mines wins the game, and the sweep shows a mine
SafeChordWinsAhead ==
  /\ bound
  /\ \E x \in Coords, y \in Coords :
       /\ (y * Size + x) \in Revealed
       /\ FlagsOnMines(y * Size + x)
       /\ LET r == Reveal(x, y, {})
          IN r.ending_text = "You win" /\ RevealedOf(r) \cap Mines # {}

\* ---- Minesweeper.pyw ----------------------------------------------------------
\* The handlers of src/Minesweeper.pyw, the variant without the timer and the
\* scoreboard, for coordinates of the grid.  get_square, mark_square,
\* calculate_mines_and_flags, activate_adjacent_squares, generate_mines and
\* start_game are the same code as in the timed variant (start_game apart
\* from the win marker, the timer and the scoreboard).

\* end_game has no timer to stop
end_game_pyw(s, message) ==
  Push([s EXCEPT !.end_games = Append(@, message)],
       Frame("end_game", None, 0, message))

\* check_win has no win marker and appends no record
check_win_pyw(s) ==
  IF s.undiscovered_squares <= 0 THEN end_game_pyw(s, "You won") ELSE s

reveal_mine_pyw(s, square, check_adjacent) ==
  end_game_pyw([s EXCEPT !.activated_squares = @ \cup {square},
                         !.activations = @ + 1,
                         !.images[square[2]] =
                            IF check_adjacent THEN IMG_EXPLODED ELSE IMG_BOMB],
               "You lose")

\* check_win runs whatever check_adjacent is
reveal_safe_pyw(s, square, check_adjacent) ==
  LET t == [s EXCEPT !.activated_squares = @ \cup {square},
                      !.activations = @ + 1,
                      !.undiscovered_squares = @ - 1,
                      !.images[square[2]] = calculate_mines(s, square)]
  IN IF t.images[square[2]] = 0 /\ check_adjacent
       THEN activate_adjacent_squares(
              Push(t, Frame("check_win", None, 0, "")), square)
       ELSE check_win_pyw(t)

activate_known_pyw(s, square, check_adjacent) ==
  IF square \in s.marked_squares THEN s
  ELSE IF square \in s.activated_squares
    THEN IF calculate_mines(s, square) = calculate_flags(s, square)
           THEN activate_adjacent_squares(s, square) ELSE s
  ELSE IF square \in s.mine_squares
    THEN reveal_mine_pyw(s, square, check_adjacent)
    ELSE reveal_safe_pyw(s, square, check_adjacent)

\* the first click generates the mines; there is no first_click method
activate_square_pyw(s, x, y, check_adjacent) ==
  IF s.activated_squares = {}
    THEN activate_known_pyw(generate_mines(s, y * Size + x), get_square(s, x, y),
                            check_adjacent)
    ELSE activate_known_pyw(s, get_square(s, x, y), check_adjacent)

activate_adjacent_loop_pyw(s, top) ==
  IF \A i \in top.pos .. 8 : ~Pending(s, top.square, i)
    THEN Pop(s)
    ELSE LET i == CHOOSE k \in top.pos .. 8 :
                    /\ Pending(s, top.square, k)
                    /\ \A j \in top.pos .. (k - 1) : ~Pending(s, top.square, j)
         IN activate_square_pyw(Advance(s, i + 1),
                                BlockX(top.square, i), BlockY(top.square, i), TRUE)

\* end_game_loop_pyw that writes its message only while no message is shown:
\* the fault C24 excludes
end_game_loop_pyw_keeps_shown_text(s, top) ==
  IF \A i \in top.pos .. (NumSquares - 1) : Square(s, i) \in s.activated_squares
    THEN [Pop(s) EXCEPT !.ending_text = IF @ = "" THEN top.message ELSE @,
                        !.bound = FALSE]
    ELSE LET i == CHOOSE k \in top.pos .. (NumSquares - 1) :
                    /\ Square(s, k) \notin s.activated_squares
                    /\ \A j \in top.pos .. (k - 1) : Square(s, j) \in s.activated_squares
         IN activate_square_pyw(Advance(s, i + 1), i % Size, i \div Size, FALSE)

end_game_loop_pyw(s, top) ==
  IF \A i \in top.pos .. (NumSquares - 1) : Square(s, i) \in s.activated_squares
    THEN [Pop(s) EXCEPT !.ending_text = top.message, !.bound = FALSE]
    ELSE LET i == CHOOSE k \in top.pos .. (NumSquares - 1) :
                    /\ Square(s, k) \notin s.activated_squares
                    /\ \A j \in top.pos .. (k - 1) : Square(s, j) \in s.activated_squares
         IN activate_square_pyw(Advance(s, i + 1), i % Size, i \div Size, FALSE)

Step_pyw(s) ==
  IF s.stack = <<>> THEN s
  ELSE IF Top(s).kind = "adjacent" THEN activate_adjacent_loop_pyw(s, Top(s))
  ELSE IF Top(s).kind = "end_game" THEN end_game_loop_pyw(s, Top(s))
  ELSE check_win_pyw(Pop(s))

RECURSIVE Iterate_pyw(_, _)
Iterate_pyw(n, s) ==
  IF s.stack = <<>> THEN s
  ELSE IF n = 0 THEN Step_pyw(s)
  ELSE LET t == Iterate_pyw(n - 1, s) IN Iterate_pyw(n - 1, t)

\* the object when Minesweeper.pyw's left-click handler has returned from the
\* square at (x, y)
Reveal_pyw(x, y, smp) ==
  Iterate_pyw(LogSteps, activate_square_pyw(Self(smp), x, y, TRUE))

\* what the two variants have in common: the squares, the counters, the
\* images, the bindings and the outcome ("You win" here, "You won" there)
Outcome(text) ==
  IF text \in {"You win", "You won"} THEN "won"
  ELSE IF text = "You lose" THEN "lost" ELSE "none"

Shared(s) ==
  [activated_squares |-> s.activated_squares,
   marked_squares |-> s.marked_squares,
   mine_squares |-> s.mine_squares,
   undiscovered_mines |-> s.undiscovered_mines,
   mines_label |-> s.mines_label,
   undiscovered_squares |-> s.undiscovered_squares,
   images |-> s.images,
   bound |-> s.bound,
   outcome |-> Outcome(s.ending_text),
   returned |-> s.stack = <<>>]

\* ---- C24 -----------------------------------------------------------------------
\* C24 (the two variants play the same game): in every state of a game in
\* progress, for every cell and every sample of mines, the left-click handler
\* of Minesweeper.pyw and that of the timed variant both return, with the
\* same activated, marked and mine squares, the same two counters, the same
\* images and bindings and the same outcome.  The right click and the restart
\* are the same code in both, and the handlers read nothing but these
\* fields: two runs that agree on them before a command agree after it.
SameGame ==
  bound =>
    \A x \in Coords, y \in Coords :
      \A smp \in Draws(x, y) :
        /\ Shared(Reveal_pyw(x, y, smp)) = Shared(Reveal(x, y, smp))
        /\ Reveal_pyw(x, y, smp).stack = <<>>

\* a game in progress where a click loses the game and Minesweeper.pyw's win
\* check ends the game once more, inside the sweep, with "You won"
WinCheckInsideLossSweep ==
  /\ bound
  /\ \E x \in Coords, y \in Coords :
       LET p == Reveal_pyw(x, y, {})
       IN /\ p.ending_text = "You lose"
          /\ \E k \in DOMAIN p.end_games : p.end_games[k] = "You won"
          /\ Reveal(x, y, {}).end_games # p.end_games

\* ---- C25 ------------------------------------------------------------------------
Count(scores, time) == Cardinality({k \in DOMAIN scores : scores[k] = time})

\* kept holds the ScoreCap fastest records of all, in ascending order of time
Fastest(kept, all) ==
  /\ Len(kept) = (IF Len(all) > ScoreCap THEN ScoreCap ELSE Len(all))
  /\ \A k \in 1 .. Len(kept) - 1 : kept[k] <= kept[k + 1]
  /\ \A time \in Times : Count(kept, time) <= Count(all, time)
  /\ \A time \in Times :
       Count(kept, time) < Count(all, time) =>
         \A k \in DOMAIN kept : kept[k] <= time

\* C25: after the save that follows a win with any mine count at any time,
\* every list of the high-score table holds at most ScoreCap records in
\* ascending order of time; the list of the mine count holds the ScoreCap
\* fastest of its earlier records and the new one, and every other list is as
\* it was.
ScoresKept ==
  \A mines \in MineCounts, time \in Times :
    LET saved == add_score(highscores, mines, time)
    IN \A size \in MineCounts :
         /\ Len(saved[size]) <= ScoreCap
         /\ IF size = mines
              THEN Fastest(saved[size], Append(highscores[size], time))
              ELSE saved[size] = highscores[size]

\* a list is full, and a win comes in faster than its slowest record and
\* slower than its fastest
FullListDropsSlowest ==
  \E mines \in MineCounts, time \in Times :
    /\ Len(highscores[mines]) = ScoreCap
    /\ highscores[mines][1] < time
    /\ time < highscores[mines][ScoreCap]
    /\ add_score(highscores, mines, time)[mines] # highscores[mines]

====
